---- MODULE Spec2Model ----
(***************************************************************************)
(* Model of the OAuth callback handler onMcpAuthorization                  *)
(* (src/src/auth/callback.ts) and of the records it reads and writes       *)
(* (src/src/auth/types.ts).                                                *)
(*                                                                         *)
(* Every invocation of onMcpAuthorization is one page load of the callback *)
(* URL.  JavaScript runs each invocation to completion between its         *)
(* suspension points; the handler has exactly one, `await auth(...)` at    *)
(* line 70.  An invocation is therefore two atomic steps: Start (lines     *)
(* 11-70, and all of the catch block when something throws before the      *)
(* await) and AuthReturn (lines 70-167).  Between the two, auth() does its *)
(* work in jobs of its own: AuthSaves (a successful exchange saves the     *)
(* tokens) and AuthSettles (its promise settles).  Invocations of          *)
(* different page loads interleave at the await and share                  *)
(* window.localStorage.                                                    *)
(***************************************************************************)
EXTENDS Integers, Sequences, FiniteSets, TLC

(***************************************************************************)
(* Bounds of the model.                                                    *)
(***************************************************************************)
NumInvocations == 2
EntryExpiry == 2

(***************************************************************************)
(* The clock runs from the millisecond before the entries expire to the    *)
(* millisecond after.                                                      *)
(***************************************************************************)
FirstClock == EntryExpiry - 1
MaxClock == EntryExpiry + 1

(***************************************************************************)
(* Program constants.                                                      *)
(***************************************************************************)
ResultTTL == 300000
CloseDelay == 100

Invocations == 1..NumInvocations

(***************************************************************************)
(* JavaScript values.  URLSearchParams.get returns null for a missing      *)
(* parameter; a missing object field reads as undefined; both, and the     *)
(* empty string, are falsy.                                                *)
(***************************************************************************)
Null == "<null>"
Undefined == "<undefined>"
Truthy(v) == v \notin {Null, Undefined, ""}

CodeValues == {Null, "abc"}
StateValues == {"s1", "s2"}
StateParams == {Null} \cup StateValues
ErrorValues == {Null, "access_denied"}
DescriptionValues == {Null, "User declined"}
Queries ==
  {q \in [code : CodeValues, state : StateParams, error : ErrorValues,
          errorDescription : DescriptionValues] :
     q.error = Null => q.errorDescription = Null}
NoQuery == [code |-> Null, state |-> Null, error |-> Null, errorDescription |-> Null]

SessionIds == {"sess1", "sess2"}
Prefixes == {"mcp:auth"}
ServerUrls == {"https://mcp.example"}

(***************************************************************************)
(* StoredState (types.ts 7-20).  A field the stored object lacks reads     *)
(* as undefined: NoOptions for providerOptions, Undefined for              *)
(* authSessionId; expiry 0 stands for a missing or zero expiry, which      *)
(* `!storedStateData.expiry` does not tell apart.  NoData is the null that *)
(* storedStateData holds until the entry has been parsed.                  *)
(***************************************************************************)
NoOptions == [undefined |-> TRUE]
ProviderOptions == [serverUrl : ServerUrls, storageKeyPrefix : Prefixes]
NoData == [null |-> TRUE]
StoredState == [expiry : {0, EntryExpiry},
                authSessionId : {Undefined} \cup SessionIds,
                providerOptions : {NoOptions} \cup ProviderOptions]

(***************************************************************************)
(* AuthResult (types.ts 26-31) as the handler builds it: the success       *)
(* record has no error field.                                              *)
(***************************************************************************)
AuthResult(success, error, timestamp, expiry) ==
  IF success
    THEN [success |-> TRUE, timestamp |-> timestamp, expiry |-> expiry]
    ELSE [success |-> FALSE, error |-> error, timestamp |-> timestamp, expiry |-> expiry]

(***************************************************************************)
(* localStorage holds strings.  An item is the string's content: NoItem    *)
(* for the null that getItem returns on a missing key, EmptyText for the   *)
(* empty string, Garbage for a text that is not JSON, JsonNull for the     *)
(* text "null", and the text of a JSON object.  JSON.stringify and         *)
(* JSON.parse convert between an object and its text; parse throws on a    *)
(* text that is not JSON.  `!storedStateJSON` is true of null and of the   *)
(* empty string.                                                           *)
(***************************************************************************)
NoItem == [kind |-> "null"]
EmptyText == [kind |-> "text", text |-> ""]
Garbage == [kind |-> "text", text |-> "not json"]
JsonNull == [kind |-> "text", text |-> "null"]
Secret == [kind |-> "text", text |-> "opaque"]
Tokens == [kind |-> "text", text |-> "tokens"]
JSONstringify(obj) == [kind |-> "text", json |-> obj]
Parsable(item) == item = JsonNull \/ "json" \in DOMAIN item
JSONparse(item) == IF item = JsonNull THEN NoData ELSE item.json
TruthyItem(item) == item \notin {NoItem, EmptyText}

(***************************************************************************)
(* Storage keys.  A key is the list of the pieces the code concatenates.   *)
(***************************************************************************)
NoKey == <<>>
StateKey(state) == <<"mcp:auth", ":state_", state>>
AuthResultKey(storageKeyPrefix, authSessionId) ==
  <<storageKeyPrefix, ":auth_result_", authSessionId>>

(***************************************************************************)
(* BrowserOAuthClientProvider (browser-provider.ts, not among the sources):*)
(* the constructor keeps the server URL and the storage prefix, and getKey *)
(* names a key inside the provider's own namespace.                        *)
(***************************************************************************)
NoProvider == [null |-> TRUE]
NewProvider(serverUrl, storageKeyPrefix) ==
  [serverUrl |-> serverUrl, storageKeyPrefix |-> storageKeyPrefix]
getKey(provider, keySuffix) ==
  <<provider.storageKeyPrefix, provider.serverUrl, keySuffix>>

Providers == {NewProvider(u, p) : u \in ServerUrls, p \in Prefixes}
StateKeys == {StateKey(s) : s \in StateValues}
ResultKeys == {AuthResultKey(p, sid) : p \in Prefixes, sid \in SessionIds}
ArtifactKeys == {getKey(pr, sfx) : pr \in Providers, sfx \in {"code_verifier", "last_auth_url"}}
TokenKeys == {getKey(pr, "tokens") : pr \in Providers}
AllKeys == StateKeys \cup ResultKeys \cup ArtifactKeys \cup TokenKeys

getItem(ls, key) == ls[key]
setItem(ls, key, item) == [ls EXCEPT ![key] = item]
removeItem(ls, key) == [ls EXCEPT ![key] = NoItem]

(***************************************************************************)
(* Error messages, as the list of the pieces the code concatenates.        *)
(***************************************************************************)
OAuthErrorMessage(error, errorDescription) ==
  <<"OAuth error: ", error, " - ",
    IF Truthy(errorDescription) THEN errorDescription ELSE "No description provided.">>
MissingCodeMessage == <<"Authorization code not found in callback query parameters.">>
MissingStateMessage == <<"State parameter not found or invalid in callback query parameters.">>
UnknownStateMessage(state) ==
  <<"Invalid or expired state parameter \"", state, "\". No matching state found in storage.">>
ParseFailedMessage == <<"Failed to parse stored OAuth state.">>
NullDataMessage(engine) ==
  IF engine = "V8" THEN <<"Cannot read properties of null (reading 'expiry')">>
  ELSE IF engine = "SpiderMonkey" THEN <<"can't access property \"expiry\", storedStateData is null">>
  ELSE <<"null is not an object (evaluating 'storedStateData.expiry')">>
ExpiredMessage == <<"OAuth state has expired. Please try initiating authentication again.">>
MissingOptionsMessage == <<"Stored state is missing required provider options.">>
UnexpectedResultMessage(authResult) ==
  <<"Unexpected result from authentication library: ", authResult>>
ExchangeErrorMessage == <<"Token exchange failed">>
NoMessage == <<>>

(***************************************************************************)
(* callback.ts 48 and 113: reading `expiry` of the null that JSON.parse    *)
(* gives for the text "null" throws a TypeError; errorMessage is its       *)
(* message, whose wording is the JavaScript engine's.                      *)
(***************************************************************************)
Engines == {"V8", "SpiderMonkey", "JavaScriptCore"}
EnginesFor(item) == IF item = JsonNull THEN Engines ELSE {"V8"}

(***************************************************************************)
(* The SDK's auth(): opaque.  It resolves to a status or rejects.          *)
(***************************************************************************)
AuthOutcomes == {"AUTHORIZED", "REDIRECT", "throws"}

(***************************************************************************)
(* window.opener of a callback window, as the handler finds it when it     *)
(* reaches line 90 or 131: "none" when `window.opener &&                   *)
(* !window.opener.closed` is false (no opener, or a closed one), "open"    *)
(* when postMessage delivers, "throws" when postMessage throws.  Each page *)
(* load has a window of its own.                                           *)
(***************************************************************************)
OpenerStates == {"none", "open", "throws"}

VARIABLES
  localStorage,     \* window.localStorage: AllKeys -> item
  now,              \* the value Date.now() returns
  pc,               \* per invocation: "idle", "awaiting", "resolved", "rejected"
  query,            \* per invocation: window.location.search
  storedStateData,  \* per invocation: the local of that name
  provider,         \* per invocation: the local of that name
  log,              \* per invocation: the calls it made, in order
  err,              \* per invocation: errorMessage of the error caught at line 111
  body,             \* per invocation: what the handler put in document.body
  closeTimer        \* per invocation: "none", "scheduled", "fired"

vars == <<localStorage, now, pc, query, storedStateData, provider, log, err,
          body, closeTimer>>

(***************************************************************************)
(* One entry of an invocation's log: a call with its key and its argument. *)
(* Of a result written to storage the log keeps success and error; the     *)
(* times are in the stored item.                                           *)
(***************************************************************************)
Noted(authResultData) ==
  [f \in DOMAIN authResultData \ {"timestamp", "expiry"} |-> authResultData[f]]
Ev(op, key, arg) == [op |-> op, key |-> key, arg |-> arg]
NoArg == [none |-> TRUE]
Did(lg, op) == \E k \in DOMAIN lg : lg[k].op = op
Writes(lg) == SelectSeq(lg, LAMBDA e : e.op = "setItem")
Settled(lg, outcome) ==
  \E k \in DOMAIN lg : lg[k].op = "authSettled" /\ lg[k].arg.outcome = outcome
SettledWith(lg) == lg[CHOOSE k \in DOMAIN lg : lg[k].op = "authSettled"].arg.outcome


(***************************************************************************)
(* The machine an invocation runs on while it holds the thread: the        *)
(* storage, the clock, its log, the message of the error it caught, its    *)
(* document body, its close timer, and whether an exception has escaped    *)
(* the handler.                                                            *)
(***************************************************************************)
Machine(ls, t, lg) ==
  [ls |-> ls, now |-> t, log |-> lg, error |-> NoMessage, body |-> NoMessage,
   timer |-> "none", fault |-> FALSE]
Logged(m, ev) == [m EXCEPT !.log = Append(@, ev)]
LsSet(m, key, item, noted) ==
  [Logged(m, Ev("setItem", key, noted)) EXCEPT !.ls = setItem(m.ls, key, item)]
LsRemove(m, key) ==
  [Logged(m, Ev("removeItem", key, NoArg)) EXCEPT !.ls = removeItem(m.ls, key)]
LsGet(m, key) == Logged(m, Ev("getItem", key, NoArg))

(***************************************************************************)
(* callback.ts 22: the storage key of the state parameter.                 *)
(***************************************************************************)
stateKeyOf(state) == IF Truthy(state) THEN StateKey(state) ELSE NoKey

(***************************************************************************)
(* callback.ts 48: `!storedStateData.expiry || storedStateData.expiry <    *)
(* Date.now()`.                                                            *)
(***************************************************************************)
IsExpired(data, t) == data.expiry = 0 \/ data.expiry < t

(***************************************************************************)
(* `storedStateData?.authSessionId` and `storedStateData.authSessionId`.   *)
(***************************************************************************)
SessionOf(data) == IF data = NoData THEN Undefined ELSE data.authSessionId

(***************************************************************************)
(* callback.ts 80-81 and 121-122: a handler that writes a result reads     *)
(* Date.now() twice; the clock may move by a millisecond between the two   *)
(* reads.                                                                  *)
(***************************************************************************)
Skews(data) ==
  IF Truthy(SessionOf(data)) /\ data.providerOptions # NoOptions THEN 0..1 ELSE {0}

(***************************************************************************)
(* callback.ts 24-70: the try block up to the await.  The result names the *)
(* error thrown (NoMessage when the block reaches the await), the machine, *)
(* and the locals storedStateData and provider.  LookupAndExchange is      *)
(* lines 36-70, what follows the checks of the query; TryBlock is the      *)
(* checks of lines 24-34 and then LookupAndExchange.                       *)
(***************************************************************************)
Thrown(m, message, data, prov) ==
  [m |-> m, thrown |-> message, data |-> data, provider |-> prov]
LookupAndExchange(m, q, engine) ==
  LET stateKey == stateKeyOf(q.state) IN
    LET storedStateJSON == getItem(m.ls, stateKey)
        m1 == LsGet(m, stateKey)
    IN
    IF ~TruthyItem(storedStateJSON) THEN
      Thrown(m1, UnknownStateMessage(q.state), NoData, NoProvider)
    ELSE IF ~Parsable(storedStateJSON) THEN
      Thrown(m1, ParseFailedMessage, NoData, NoProvider)
    ELSE
      LET data == JSONparse(storedStateJSON) IN
      IF data = NoData THEN
        Thrown(m1, NullDataMessage(engine), NoData, NoProvider)
      ELSE IF IsExpired(data, m1.now) THEN
        Thrown(LsRemove(m1, stateKey), ExpiredMessage, data, NoProvider)
      ELSE IF data.providerOptions = NoOptions THEN
        Thrown(m1, MissingOptionsMessage, data, NoProvider)
      ELSE
        LET prov == NewProvider(data.providerOptions.serverUrl,
                                data.providerOptions.storageKeyPrefix)
        IN Thrown(Logged(m1, Ev("auth", NoKey,
                                [serverUrl |-> data.providerOptions.serverUrl,
                                 authorizationCode |-> q.code])),
                  NoMessage, data, prov)

TryBlockCodeFirst(m, q, engine) ==
  IF ~Truthy(q.code) THEN
    Thrown(m, MissingCodeMessage, NoData, NoProvider)
  ELSE IF Truthy(q.error) THEN
    Thrown(m, OAuthErrorMessage(q.error, q.errorDescription), NoData, NoProvider)
  ELSE IF ~Truthy(q.state) \/ stateKeyOf(q.state) = NoKey THEN
    Thrown(m, MissingStateMessage, NoData, NoProvider)
  ELSE LookupAndExchange(m, q, engine)
TryBlock(m, q, engine) ==
  IF Truthy(q.error) THEN
    Thrown(m, OAuthErrorMessage(q.error, q.errorDescription), NoData, NoProvider)
  ELSE IF ~Truthy(q.code) THEN
    Thrown(m, MissingCodeMessage, NoData, NoProvider)
  ELSE IF ~Truthy(q.state) \/ stateKeyOf(q.state) = NoKey THEN
    Thrown(m, MissingStateMessage, NoData, NoProvider)
  ELSE LookupAndExchange(m, q, engine)

(***************************************************************************)
(* callback.ts 75-87: the success result, written for polling when the     *)
(* entry names a session.  Date.now() is read twice; d is the time that    *)
(* passes between the two reads.                                           *)
(***************************************************************************)
WriteSuccessResultUnguarded(m, data, d) ==
  LET authResultKey == AuthResultKey(data.providerOptions.storageKeyPrefix,
                                     data.authSessionId)
      authResultData == AuthResult(TRUE, NoMessage, m.now, (m.now + d) + ResultTTL)
  IN [LsSet(m, authResultKey, JSONstringify(authResultData), Noted(authResultData))
        EXCEPT !.now = m.now + d]
WriteSuccessResult(m, data, d) ==
  IF Truthy(SessionOf(data)) THEN
    LET authResultKey == AuthResultKey(data.providerOptions.storageKeyPrefix,
                                       data.authSessionId)
        authResultData == AuthResult(TRUE, NoMessage, m.now, (m.now + d) + ResultTTL)
    IN [LsSet(m, authResultKey, JSONstringify(authResultData), Noted(authResultData))
          EXCEPT !.now = m.now + d]
  ELSE m

(***************************************************************************)
(* callback.ts 89-97 and 130-138: the message to the opener, sent when     *)
(* there is an opener that is not closed; a throwing postMessage is caught.*)
(***************************************************************************)
NotifyOpenerUncaught(m, op, message) ==
  IF op = "open" THEN Logged(m, Ev("postMessage", NoKey, message))
  ELSE IF op = "throws" THEN [m EXCEPT !.fault = TRUE]
  ELSE m
NotifyOpener(m, op, message) ==
  IF op = "open" THEN Logged(m, Ev("postMessage", NoKey, message))
  ELSE IF op = "throws" THEN Logged(m, Ev("postMessageFailed", NoKey, message))
  ELSE m

(***************************************************************************)
(* callback.ts 99-102: the window closes after CloseDelay milliseconds.    *)
(***************************************************************************)
ScheduleClose(m) ==
  [Logged(m, Ev("setTimeout", NoKey, [delay |-> CloseDelay])) EXCEPT !.timer = "scheduled"]

(***************************************************************************)
(* callback.ts 104-105: the state entry is removed on success.             *)
(***************************************************************************)
KeepStateOnSuccess(m, stateKey) == m
RemoveStateOnSuccess(m, stateKey) == LsRemove(m, stateKey)

(***************************************************************************)
(* callback.ts 72-105: the branch of an AUTHORIZED result.                 *)
(***************************************************************************)
SuccessBlockRemoveFirst(m, data, stateKey, op, d) ==
  ScheduleClose(
    NotifyOpener(WriteSuccessResult(RemoveStateOnSuccess(m, stateKey), data, d), op,
                 [type |-> "mcp_auth_callback", success |-> TRUE]))
SuccessBlock(m, data, stateKey, op, d) ==
  RemoveStateOnSuccess(
    ScheduleClose(
      NotifyOpener(WriteSuccessResult(m, data, d), op,
                   [type |-> "mcp_auth_callback", success |-> TRUE])),
    stateKey)

(***************************************************************************)
(* callback.ts 115-128: the error result.  The key is built from           *)
(* storedStateData.providerOptions.storageKeyPrefix: when the entry has a  *)
(* session id and no provider options, reading storageKeyPrefix of         *)
(* undefined throws a TypeError inside the catch block, which nothing      *)
(* catches.                                                                *)
(***************************************************************************)
WriteErrorResult(m, data, errorMessage, d) ==
  IF Truthy(SessionOf(data)) THEN
    IF data.providerOptions = NoOptions THEN [m EXCEPT !.fault = TRUE]
    ELSE
      LET authResultKey == AuthResultKey(data.providerOptions.storageKeyPrefix,
                                         data.authSessionId)
          authResultData == AuthResult(FALSE, errorMessage, m.now, (m.now + d) + ResultTTL)
      IN [LsSet(m, authResultKey, JSONstringify(authResultData), Noted(authResultData))
            EXCEPT !.now = m.now + d]
  ELSE m

(***************************************************************************)
(* callback.ts 140-156: the error shown in the callback window.  The       *)
(* message goes unescaped into a fixed HTML frame together with err.stack, *)
(* and the frame replaces the content of document.body.  When the document *)
(* has no body (the script runs before <body> is parsed) the assignment    *)
(* throws, the throw is caught at line 154 and nothing is shown.           *)
(***************************************************************************)
ErrorPage(errorMessage) ==
  [heading |-> "Authentication Error", message |-> errorMessage, stack |-> "err.stack"]
DisplayError(m, errorMessage, hasBody) ==
  IF hasBody
    THEN [Logged(m, Ev("display", NoKey, [text |-> errorMessage]))
            EXCEPT !.body = ErrorPage(errorMessage)]
    ELSE m

(***************************************************************************)
(* callback.ts 157-160: the state entry is removed on failure.             *)
(***************************************************************************)
CleanupEveryState(m, stateKey) ==
  IF stateKey # NoKey THEN LsRemove(LsRemove(m, StateKey("s1")), StateKey("s2")) ELSE m
CleanupState(m, stateKey) == IF stateKey # NoKey THEN LsRemove(m, stateKey) ELSE m

(***************************************************************************)
(* callback.ts 161-166: the verifier and the last authorization URL are    *)
(* removed when the provider had been built.                               *)
(***************************************************************************)
CleanupVerifierOnly(m, prov) ==
  IF prov # NoProvider THEN LsRemove(m, getKey(prov, "code_verifier")) ELSE m
CleanupProvider(m, prov) ==
  IF prov # NoProvider
    THEN LsRemove(LsRemove(m, getKey(prov, "code_verifier")), getKey(prov, "last_auth_url"))
    ELSE m

(***************************************************************************)
(* callback.ts 111-167: the catch block.                                   *)
(***************************************************************************)
CatchBlock(m, errorMessage, data, prov, stateKey, op, hasBody, d) ==
  LET m1 == WriteErrorResult([m EXCEPT !.error = errorMessage], data, errorMessage, d) IN
  IF m1.fault THEN m1
  ELSE CleanupProvider(
         CleanupState(
           DisplayError(
             NotifyOpener(m1, op, [type |-> "mcp_auth_callback", success |-> FALSE,
                                   error |-> errorMessage]),
             errorMessage, hasBody),
           stateKey),
         prov)

(***************************************************************************)
(* callback.ts 63-70 and 161-162: what the SDK's auth() does to the        *)
(* storage before it settles.  With an authorization code it exchanges the *)
(* code and, on success, calls provider.saveTokens(), which stores the     *)
(* tokens under the provider's own key and removes the code verifier and   *)
(* the last authorization URL (browser-provider.ts, not among the          *)
(* sources).  The calls are the provider's: the handler's log keeps one    *)
(* entry for them.  An exchange that fails stores nothing.                 *)
(***************************************************************************)
saveTokens(m, prov) ==
  [Logged(m, Ev("saveTokens", getKey(prov, "tokens"), NoArg))
     EXCEPT !.ls = removeItem(removeItem(setItem(m.ls, getKey(prov, "tokens"), Tokens),
                                         getKey(prov, "code_verifier")),
                              getKey(prov, "last_auth_url"))]

(***************************************************************************)
(* callback.ts 70-110: what the awaited auth() delivers: a status, or the  *)
(* error it rejected with.                                                 *)
(***************************************************************************)
AfterAwait(m1, authResult, data, prov, stateKey, op, hasBody, d) ==
  IF authResult = "AUTHORIZED" THEN SuccessBlock(m1, data, stateKey, op, d)
  ELSE IF authResult = "throws" THEN
    CatchBlock(m1, ExchangeErrorMessage, data, prov, stateKey, op, hasBody, d)
  ELSE CatchBlock(m1, UnexpectedResultMessage(authResult), data, prov, stateKey, op,
                  hasBody, d)

(***************************************************************************)
(* The entries the initiator may have left under a state key, and the      *)
(* storage when the first callback arrives: the verifier and the last      *)
(* authorization URL of every provider are stored, no result and no token  *)
(* is.  Each                                                               *)
(* attempt has its own session id: an entry of s1 names sess1, an entry of *)
(* s2 names sess2.                                                         *)
(***************************************************************************)
EntrySessionOf(item) == IF Parsable(item) THEN SessionOf(JSONparse(item)) ELSE Undefined
StoredItems == {NoItem, EmptyText, Garbage, JsonNull} \cup {JSONstringify(e) : e \in StoredState}
ValidItems ==
  {JSONstringify(e) : e \in {x \in StoredState : x.expiry # 0 /\ x.providerOptions # NoOptions
                                                   /\ Truthy(x.authSessionId)}}
InitialStorages ==
  {[k \in AllKeys |->
      IF k = StateKey("s1") THEN a
      ELSE IF k = StateKey("s2") THEN b
      ELSE IF k \in ResultKeys \cup TokenKeys THEN NoItem
      ELSE Secret] :
     a \in {x \in StoredItems : EntrySessionOf(x) \in {Undefined, "sess1"}},
     b \in {x \in {NoItem} \cup ValidItems : EntrySessionOf(x) \in {Undefined, "sess2"}}}

Init ==
  /\ localStorage \in InitialStorages
  /\ now = FirstClock
  /\ pc = [i \in Invocations |-> "idle"]
  /\ query = [i \in Invocations |-> NoQuery]
  /\ storedStateData = [i \in Invocations |-> NoData]
  /\ provider = [i \in Invocations |-> NoProvider]
  /\ log = [i \in Invocations |-> <<>>]
  /\ err = [i \in Invocations |-> NoMessage]
  /\ body = [i \in Invocations |-> NoMessage]
  /\ closeTimer = [i \in Invocations |-> "none"]

(***************************************************************************)
(* The machine's state after a block, written back.                        *)
(***************************************************************************)
Commit(i, m, nextPc) ==
  /\ localStorage' = m.ls
  /\ now' = m.now
  /\ log' = [log EXCEPT ![i] = m.log]
  /\ err' = [err EXCEPT ![i] = m.error]
  /\ body' = [body EXCEPT ![i] = m.body]
  /\ closeTimer' = [closeTimer EXCEPT ![i] = m.timer]
  /\ pc' = [pc EXCEPT ![i] = nextPc]

(***************************************************************************)
(* callback.ts 10-70 (and 111-167 when the try block throws before the     *)
(* await): the callback page loads with query q.  Invocations are numbered *)
(* in the order their pages load.  The page's opener and whether its       *)
(* document has a body are the window's, found when the catch block runs.  *)
(***************************************************************************)
Start(i) ==
  /\ pc[i] = "idle"
  /\ \A j \in Invocations : j < i => pc[j] # "idle"
  /\ \E q \in Queries :
       \E engine \in EnginesFor(IF Truthy(q.state) THEN localStorage[StateKey(q.state)]
                                                   ELSE NoItem) :
         LET r == TryBlock(Machine(localStorage, now, <<>>), q, engine) IN
           /\ query' = [query EXCEPT ![i] = q]
           /\ storedStateData' = [storedStateData EXCEPT ![i] = r.data]
           /\ provider' = [provider EXCEPT ![i] = r.provider]
           /\ IF r.thrown = NoMessage
                THEN Commit(i, r.m, "awaiting")
                ELSE \E d \in Skews(r.data), op \in OpenerStates, hasBody \in BOOLEAN :
                       /\ now + d <= MaxClock
                       /\ LET f == CatchBlock(r.m, r.thrown, r.data, r.provider,
                                              stateKeyOf(q.state), op, hasBody, d)
                          IN Commit(i, f, IF f.fault THEN "rejected" ELSE "resolved")

(***************************************************************************)
(* callback.ts 65-69: while the handler is suspended at the await, auth()  *)
(* exchanges the code and, when the exchange succeeds, saves the tokens.   *)
(***************************************************************************)
AuthSaves(i) ==
  /\ pc[i] = "awaiting"
  /\ ~Did(log[i], "saveTokens")
  /\ ~Did(log[i], "authSettled")
  /\ Commit(i, saveTokens(Machine(localStorage, now, log[i]), provider[i]), "awaiting")
  /\ UNCHANGED <<query, storedStateData, provider>>

(***************************************************************************)
(* callback.ts 70: the promise of auth() settles: with AUTHORIZED once the *)
(* tokens are saved, otherwise with another status or with an error.  The  *)
(* handler resumes in a later job.                                         *)
(***************************************************************************)
AuthSettles(i) ==
  /\ pc[i] = "awaiting"
  /\ ~Did(log[i], "authSettled")
  /\ \E authResult \in AuthOutcomes :
       /\ (authResult = "AUTHORIZED") <=> Did(log[i], "saveTokens")
       /\ log' = [log EXCEPT ![i] = Append(@, Ev("authSettled", NoKey,
                                                 [outcome |-> authResult]))]
  /\ UNCHANGED <<localStorage, now, pc, query, storedStateData, provider, err, body,
                 closeTimer>>

(***************************************************************************)
(* callback.ts 70-167: the handler resumes with what auth() settled with.  *)
(***************************************************************************)
AuthReturn(i) ==
  /\ pc[i] = "awaiting"
  /\ Did(log[i], "authSettled")
  /\ \E d \in Skews(storedStateData[i]), op \in OpenerStates, hasBody \in BOOLEAN :
       /\ now + d <= MaxClock
       /\ LET f == AfterAwait(Machine(localStorage, now, log[i]), SettledWith(log[i]),
                              storedStateData[i], provider[i],
                              stateKeyOf(query[i].state), op, hasBody, d)
          IN Commit(i, f, IF f.fault THEN "rejected" ELSE "resolved")
  /\ UNCHANGED <<query, storedStateData, provider>>

(***************************************************************************)
(* callback.ts 100-102: the timer fires and the window closes.             *)
(***************************************************************************)
WindowClose(i) ==
  /\ closeTimer[i] = "scheduled"
  /\ closeTimer' = [closeTimer EXCEPT ![i] = "fired"]
  /\ log' = [log EXCEPT ![i] = Append(@, Ev("close", NoKey, NoArg))]
  /\ UNCHANGED <<localStorage, now, pc, query, storedStateData, provider, err, body>>

(***************************************************************************)
(* Time passes.                                                            *)
(***************************************************************************)
Tick ==
  /\ now < MaxClock
  /\ now' = now + 1
  /\ UNCHANGED <<localStorage, pc, query, storedStateData, provider, log, err,
                 body, closeTimer>>

Next ==
  \/ \E i \in Invocations : Start(i)
  \/ \E i \in Invocations : AuthSaves(i)
  \/ \E i \in Invocations : AuthSettles(i)
  \/ \E i \in Invocations : AuthReturn(i)
  \/ \E i \in Invocations : WindowClose(i)
  \/ Tick

Spec == Init /\ [][Next]_vars


(***************************************************************************)
(* Vocabulary of the properties.                                           *)
(***************************************************************************)
Finished(i) == pc[i] \in {"resolved", "rejected"}
Failed(lg) == ~Settled(lg, "AUTHORIZED")
EntryData(item) == IF Parsable(item) THEN JSONparse(item) ELSE NoData
EntrySession(item) == SessionOf(EntryData(item))
PublishedUnder(lg, sid) ==
  \E k \in DOMAIN lg :
    /\ lg[k].op = "setItem"
    /\ lg[k].key[2] = ":auth_result_"
    /\ lg[k].key[3] = sid
Loads(i) == pc[i] = "idle" /\ pc'[i] # "idle"

(***************************************************************************)
(* C1.  An invocation with a code and a state, whose entry is valid and    *)
(* names a session, and whose token exchange returned AUTHORIZED, resolves *)
(* having written exactly one result, a success, under the key of the      *)
(* entry's session, and the entry of its state is absent once it has       *)
(* finished.                                                               *)
(***************************************************************************)
C1_Case(i) ==
  /\ Finished(i)
  /\ Truthy(query[i].code)
  /\ Truthy(query[i].state)
  /\ storedStateData[i] # NoData
  /\ storedStateData[i].providerOptions # NoOptions
  /\ Truthy(SessionOf(storedStateData[i]))
  /\ Settled(log[i], "AUTHORIZED")
C1_Outcome(i) ==
  /\ pc[i] = "resolved"
  /\ Writes(log[i]) =
       <<Ev("setItem",
            AuthResultKey(storedStateData[i].providerOptions.storageKeyPrefix,
                          storedStateData[i].authSessionId),
            [success |-> TRUE])>>
  /\ localStorage[StateKey(query[i].state)] = NoItem
C1_SuccessPublishedOnceAndEntryRemoved ==
  \A i \in Invocations : C1_Case(i) => C1_Outcome(i)
C1_Witness == \E i \in Invocations : C1_Case(i) /\ C1_Outcome(i)


(***************************************************************************)
(* C2.  The token exchange is invoked at most once for the entry of a      *)
(* state value, however the invocations for that state interleave: only    *)
(* the first of them finds the entry.                                      *)
(***************************************************************************)
C2_ExchangeAtMostOncePerEntry ==
  \A s \in StateValues :
    Cardinality({i \in Invocations : query[i].state = s /\ Did(log[i], "auth")}) <= 1

(***************************************************************************)
(* C3.  When an invocation for a state value has finished, a later         *)
(* invocation with a code and the same state value finds no entry: it      *)
(* fails with the unknown-or-expired-state error and does not invoke the   *)
(* token exchange.                                                         *)
(***************************************************************************)
C3_Later(i, j) ==
  /\ i # j
  /\ Finished(i)
  /\ Loads(j)
  /\ Truthy(query[i].state)
  /\ query'[j].state = query[i].state
  /\ Truthy(query'[j].code)
  /\ ~Truthy(query'[j].error)
C3_SecondCallFindsNoEntry ==
  [][\A i, j \in Invocations :
       C3_Later(i, j) =>
         /\ pc'[j] = "resolved"
         /\ err'[j] = UnknownStateMessage(query'[j].state)
         /\ ~Did(log'[j], "auth")]_vars

(***************************************************************************)
(* C4.  An invocation whose state value names an entry that carries a      *)
(* session id has written a result under that session id when it ends.     *)
(***************************************************************************)
C4_EndsAtLoad(i) ==
  /\ Loads(i)
  /\ Finished(i)'
  /\ Truthy(query'[i].state)
  /\ Truthy(EntrySession(localStorage[StateKey(query'[i].state)]))
C4_EndsAfterAwait(i) ==
  /\ pc[i] = "awaiting"
  /\ Finished(i)'
  /\ Truthy(SessionOf(storedStateData[i]))
C4_OutcomeAlwaysPublished ==
  [][\A i \in Invocations :
       /\ C4_EndsAtLoad(i) =>
            PublishedUnder(log'[i], EntrySession(localStorage[StateKey(query'[i].state)]))
       /\ C4_EndsAfterAwait(i) =>
            PublishedUnder(log'[i], SessionOf(storedStateData[i]))]_vars

(***************************************************************************)
(* C5.  With an error parameter in the query, no token exchange is         *)
(* attempted, and when the state names an entry with a session id, a       *)
(* failure result with the text "OAuth error: <error> - <description>" is  *)
(* written under that session id.                                          *)
(***************************************************************************)
C5_Case(i) == Loads(i) /\ Truthy(query'[i].error)
C5_FailurePublished(i) ==
  \E k \in DOMAIN log'[i] :
    /\ log'[i][k].op = "setItem"
    /\ log'[i][k].key[3] = EntrySession(localStorage[StateKey(query'[i].state)])
    /\ log'[i][k].arg = [success |-> FALSE,
                         error |-> OAuthErrorMessage(query'[i].error,
                                                     query'[i].errorDescription)]
C5_ProviderErrorPublished ==
  [][\A i \in Invocations :
       C5_Case(i) =>
         /\ ~Did(log'[i], "auth")
         /\ (/\ Truthy(query'[i].state)
             /\ Truthy(EntrySession(localStorage[StateKey(query'[i].state)])))
              => C5_FailurePublished(i)]_vars

(***************************************************************************)
(* C6.  An entry whose expiry is at or before the current time is treated  *)
(* as absent: the invocation fails without invoking the token exchange and *)
(* the entry is absent afterwards.                                         *)
(***************************************************************************)
C6_Case(i) ==
  /\ Loads(i)
  /\ Truthy(query'[i].state)
  /\ EntryData(localStorage[StateKey(query'[i].state)]) # NoData
  /\ EntryData(localStorage[StateKey(query'[i].state)]).expiry <= now
C6_ExpiredAtOrBeforeNowIsAbsent ==
  [][\A i \in Invocations :
       C6_Case(i) =>
         /\ Finished(i)'
         /\ ~Did(log'[i], "auth")
         /\ localStorage'[StateKey(query'[i].state)] = NoItem]_vars

(***************************************************************************)
(* C7.  No invocation ends with its promise rejected: every failure ends   *)
(* resolved, with the failure written as a result or shown in the callback *)
(* window.                                                                 *)
(***************************************************************************)
C7_NoUncaughtFault ==
  \A i \in Invocations :
    /\ pc[i] # "rejected"
    /\ (pc[i] = "resolved" /\ Failed(log[i])) =>
         (Did(log[i], "setItem") \/ body[i] = ErrorPage(err[i]))

(***************************************************************************)
(* C8.  Once an invocation that carries a state value has ended, the entry *)
(* under that state's key is absent.                                       *)
(***************************************************************************)
C8_EntryAbsentOnEveryExit ==
  \A i \in Invocations :
    (Finished(i) /\ Truthy(query[i].state)) =>
      localStorage[StateKey(query[i].state)] = NoItem

(***************************************************************************)
(* C9.  When an invocation whose state names an entry ends in failure, the *)
(* code verifier and the last authorization URL of the entry's provider    *)
(* are absent afterwards.                                                  *)
(***************************************************************************)
C9_ArtifactsAbsent(data) ==
  LET prov == NewProvider(data.providerOptions.serverUrl,
                          data.providerOptions.storageKeyPrefix)
  IN /\ localStorage'[getKey(prov, "code_verifier")] = NoItem
     /\ localStorage'[getKey(prov, "last_auth_url")] = NoItem
C9_FailsAtLoad(i) ==
  /\ Loads(i)
  /\ Finished(i)'
  /\ Truthy(query'[i].state)
  /\ EntryData(localStorage[StateKey(query'[i].state)]) # NoData
  /\ EntryData(localStorage[StateKey(query'[i].state)]).providerOptions # NoOptions
C9_FailsAfterAwait(i) ==
  /\ pc[i] = "awaiting"
  /\ Finished(i)'
  /\ Failed(log'[i])
C9_FailureRemovesArtifacts ==
  [][\A i \in Invocations :
       /\ C9_FailsAtLoad(i) =>
            C9_ArtifactsAbsent(EntryData(localStorage[StateKey(query'[i].state)]))
       /\ C9_FailsAfterAwait(i) => C9_ArtifactsAbsent(storedStateData[i])]_vars

(***************************************************************************)
(* C10.  When the token exchange fails (it throws, or returns a status     *)
(* other than AUTHORIZED) for an entry that names a session, the           *)
(* invocation resolves having written exactly one result, a failure with   *)
(* the reason, under the key of the entry's session, and afterwards the    *)
(* entry, the code verifier and the last authorization URL are absent.     *)
(***************************************************************************)
C10_Case(i) ==
  /\ Finished(i)
  /\ Did(log[i], "authSettled")
  /\ Failed(log[i])
  /\ Truthy(SessionOf(storedStateData[i]))
C10_Reason(i) ==
  IF SettledWith(log[i]) = "throws" THEN ExchangeErrorMessage
  ELSE UnexpectedResultMessage(SettledWith(log[i]))
C10_Outcome(i) ==
  /\ pc[i] = "resolved"
  /\ Writes(log[i]) =
       <<Ev("setItem",
            AuthResultKey(storedStateData[i].providerOptions.storageKeyPrefix,
                          storedStateData[i].authSessionId),
            [success |-> FALSE, error |-> C10_Reason(i)])>>
  /\ localStorage[StateKey(query[i].state)] = NoItem
  /\ localStorage[getKey(provider[i], "code_verifier")] = NoItem
  /\ localStorage[getKey(provider[i], "last_auth_url")] = NoItem
C10_ExchangeFailureCleansUp ==
  \A i \in Invocations : C10_Case(i) => C10_Outcome(i)
C10_Witness == \E i \in Invocations : C10_Case(i) /\ C10_Outcome(i)


(***************************************************************************)
(* C11.  A result stored under a session id is written once: whatever the  *)
(* invocations do afterwards, it stays stored with the same success and    *)
(* error.                                                                  *)
(***************************************************************************)
C11_OutcomeNeverMutated ==
  [][\A k \in ResultKeys :
       localStorage[k] # NoItem =>
         /\ localStorage'[k] # NoItem
         /\ Noted(JSONparse(localStorage'[k])) = Noted(JSONparse(localStorage[k]))]_vars


(***************************************************************************)
(* C12.  A callback with a code and a state value under which nothing is   *)
(* stored writes no result, does not invoke the token exchange, and shows  *)
(* the unknown-or-expired-state error in its own window.                   *)
(***************************************************************************)
C12_Query(q) == Truthy(q.code) /\ Truthy(q.state) /\ ~Truthy(q.error)
C12_Case(i) ==
  /\ Loads(i)
  /\ C12_Query(query'[i])
  /\ localStorage[StateKey(query'[i].state)] = NoItem
C12_UnknownStateShownOnly ==
  [][\A i \in Invocations :
       C12_Case(i) =>
         /\ pc'[i] = "resolved"
         /\ Writes(log'[i]) = <<>>
         /\ ~Did(log'[i], "auth")
         /\ body'[i] = ErrorPage(UnknownStateMessage(query'[i].state))
         /\ \A k \in ResultKeys : localStorage'[k] = localStorage[k]]_vars

(***************************************************************************)
(* C13.  Every result the handler stores expires exactly ResultTTL         *)
(* milliseconds after its own timestamp.                                   *)
(***************************************************************************)
C13_ExpiryIsTimestampPlusTTL ==
  \A k \in ResultKeys :
    localStorage[k] # NoItem =>
      JSONparse(localStorage[k]).expiry = JSONparse(localStorage[k]).timestamp + ResultTTL


(***************************************************************************)
(* C14.  The checks of the query come in a fixed order and each stops the  *)
(* handler: an error parameter gives the OAuth error even when code or     *)
(* state is missing; without it a missing code gives the missing-code      *)
(* error even when state is missing too; with a code, a missing state      *)
(* gives the missing-state error.  In all three cases the entry is not     *)
(* read from storage and the token exchange is not invoked.                *)
(***************************************************************************)
C14_Stopped(i, message) ==
  /\ pc[i] = "resolved"
  /\ err[i] = message
  /\ ~Did(log[i], "getItem")
  /\ ~Did(log[i], "auth")
C14_ParsingOrder ==
  \A i \in Invocations :
    pc[i] # "idle" =>
      /\ Truthy(query[i].error) =>
           C14_Stopped(i, OAuthErrorMessage(query[i].error, query[i].errorDescription))
      /\ (~Truthy(query[i].error) /\ ~Truthy(query[i].code)) =>
           C14_Stopped(i, MissingCodeMessage)
      /\ (~Truthy(query[i].error) /\ Truthy(query[i].code) /\ ~Truthy(query[i].state)) =>
           C14_Stopped(i, MissingStateMessage)
C14_Witness ==
  \E i, j \in Invocations :
    /\ Truthy(query[i].error) /\ ~Truthy(query[i].code) /\ ~Truthy(query[i].state)
    /\ C14_Stopped(i, OAuthErrorMessage(query[i].error, query[i].errorDescription))
    /\ pc[j] # "idle"
    /\ ~Truthy(query[j].error) /\ ~Truthy(query[j].code) /\ ~Truthy(query[j].state)
    /\ C14_Stopped(j, MissingCodeMessage)


(***************************************************************************)
(* C15.  On the success path the result is written first, then the opener  *)
(* is notified, then the entry is removed, and the window closes only      *)
(* after that; the close is scheduled on success only.                     *)
(***************************************************************************)
Before(lg, a, b) ==
  \A j, k \in DOMAIN lg : (lg[j].op = a /\ lg[k].op = b) => j < k
OpsOf(lg) == [k \in DOMAIN lg |-> lg[k].op]
C15_Case(i) == Finished(i) /\ Settled(log[i], "AUTHORIZED")
C15_Order(i) ==
  /\ Truthy(SessionOf(storedStateData[i])) => Did(log[i], "setItem")
  /\ Did(log[i], "setTimeout")
  /\ \E k \in DOMAIN log[i] :
       log[i][k].op = "removeItem" /\ log[i][k].key = StateKey(query[i].state)
  /\ Before(log[i], "setItem", "postMessage")
  /\ Before(log[i], "setItem", "postMessageFailed")
  /\ Before(log[i], "setItem", "removeItem")
  /\ Before(log[i], "postMessage", "removeItem")
  /\ Before(log[i], "postMessageFailed", "removeItem")
  /\ Before(log[i], "removeItem", "close")
C15_CloseOnlyOnSuccess(i) ==
  (closeTimer[i] # "none" \/ Did(log[i], "setTimeout") \/ Did(log[i], "close"))
    => C15_Case(i)
C15_SuccessPathOrder ==
  \A i \in Invocations :
    /\ C15_CloseOnlyOnSuccess(i)
    /\ C15_Case(i) => C15_Order(i)
C15_Witness ==
  \E i \in Invocations :
    /\ C15_Case(i)
    /\ closeTimer[i] = "fired"
    /\ OpsOf(log[i]) = <<"getItem", "auth", "saveTokens", "authSettled", "setItem",
                         "postMessage", "setTimeout", "removeItem", "close">>


(***************************************************************************)
(* C16.  When the entry names no session and the token exchange succeeds,  *)
(* the invocation still succeeds: it writes no result, does not enter the  *)
(* failure path, tells an open opener success = true, and removes the      *)
(* entry.                                                                  *)
(***************************************************************************)
C16_Case(i) ==
  /\ Finished(i)
  /\ Settled(log[i], "AUTHORIZED")
  /\ ~Truthy(SessionOf(storedStateData[i]))
C16_Outcome(i) ==
  /\ pc[i] = "resolved"
  /\ Writes(log[i]) = <<>>
  /\ body[i] = NoMessage
  /\ ~Did(log[i], "display")
  /\ err[i] = NoMessage
  /\ \A k \in DOMAIN log[i] :
       log[i][k].op \in {"postMessage", "postMessageFailed"} =>
         log[i][k].arg = [type |-> "mcp_auth_callback", success |-> TRUE]
  /\ closeTimer[i] # "none"
  /\ localStorage[StateKey(query[i].state)] = NoItem
C16_OpenOpenerTold(i) ==
  \A hasBody \in BOOLEAN :
    Did(AfterAwait(Machine(localStorage, now, log[i]), SettledWith(log[i]), storedStateData[i],
                   provider[i], stateKeyOf(query[i].state), "open", hasBody, 0).log,
        "postMessage")
C16_SuccessWithoutSession ==
  \A i \in Invocations :
    /\ C16_Case(i) => C16_Outcome(i)
    /\ (pc[i] = "awaiting" /\ Settled(log[i], "AUTHORIZED")
          /\ ~Truthy(SessionOf(storedStateData[i]))) =>
         C16_OpenOpenerTold(i)
C16_Witness ==
  \E i \in Invocations : C16_Case(i) /\ C16_Outcome(i) /\ Did(log[i], "postMessage")


(***************************************************************************)
(* C17.  A notification that fails (postMessage throws) or cannot be sent  *)
(* (no open opener) does not change how the handler ends.  On the success  *)
(* path the success result is written, no failure result is, and the       *)
(* entry is removed; on the failure path the failure result, the error     *)
(* display (in a document that has a body) and the cleanup happen; and on  *)
(* either path the handler leaves the storage, the clock, the window and   *)
(* its own calls, the notification apart, exactly as it does when the      *)
(* message is delivered.                                                   *)
(***************************************************************************)
Terminal(m) ==
  [ls |-> m.ls, now |-> m.now, error |-> m.error, body |-> m.body, timer |-> m.timer,
   fault |-> m.fault,
   calls |-> SelectSeq(m.log, LAMBDA e : e.op \notin {"postMessage", "postMessageFailed"})]
Undelivered == {"none", "throws"}
C17_Shown(t, hasBody) ==
  (hasBody /\ ~t.fault /\ t.error # NoMessage) => t.body = ErrorPage(t.error)
C17_AfterAwaitUnaffected(i) ==
  LET m == Machine(localStorage, now, log[i])
      stateKey == stateKeyOf(query[i].state) IN
  \A d \in Skews(storedStateData[i]), hasBody \in BOOLEAN :
    LET authResult == SettledWith(log[i])
        delivered == Terminal(AfterAwait(m, authResult, storedStateData[i], provider[i],
                                         stateKey, "open", hasBody, d)) IN
    /\ C17_Shown(delivered, hasBody)
    /\ \A op \in Undelivered :
         Terminal(AfterAwait(m, authResult, storedStateData[i], provider[i],
                             stateKey, op, hasBody, d)) = delivered
C17_AtLoadUnaffected ==
  \A q \in Queries, engine \in Engines :
    LET r == TryBlock(Machine(localStorage, now, <<>>), q, engine) IN
    r.thrown # NoMessage =>
      \A d \in Skews(r.data), hasBody \in BOOLEAN :
        LET delivered == Terminal(CatchBlock(r.m, r.thrown, r.data, r.provider,
                                             stateKeyOf(q.state), "open", hasBody, d)) IN
        /\ C17_Shown(delivered, hasBody)
        /\ \A op \in Undelivered :
             Terminal(CatchBlock(r.m, r.thrown, r.data, r.provider,
                                 stateKeyOf(q.state), op, hasBody, d)) = delivered
C17_SuccessStands(i) ==
  /\ pc[i] = "resolved"
  /\ \A k \in DOMAIN log[i] : log[i][k].op = "setItem" => log[i][k].arg.success
  /\ Truthy(SessionOf(storedStateData[i])) => Did(log[i], "setItem")
  /\ body[i] = NoMessage
  /\ localStorage[StateKey(query[i].state)] = NoItem
C17_FailureStands(i) ==
  /\ pc[i] = "resolved"
  /\ Did(log[i], "display") => body[i] = ErrorPage(err[i])
  /\ Truthy(SessionOf(storedStateData[i])) =>
       \E k \in DOMAIN log[i] : log[i][k].op = "setItem" /\ ~log[i][k].arg.success
  /\ Truthy(query[i].state) => localStorage[StateKey(query[i].state)] = NoItem
  /\ provider[i] # NoProvider =>
       /\ localStorage[getKey(provider[i], "code_verifier")] = NoItem
       /\ localStorage[getKey(provider[i], "last_auth_url")] = NoItem
C17_Unaffected ==
  /\ \A i \in Invocations :
       (pc[i] = "awaiting" /\ Did(log[i], "authSettled")) => C17_AfterAwaitUnaffected(i)
  /\ (\E i \in Invocations : pc[i] = "idle") => C17_AtLoadUnaffected
  /\ \A i \in Invocations :
       (Finished(i) /\ ~Did(log[i], "postMessage")) =>
         /\ Settled(log[i], "AUTHORIZED") => C17_SuccessStands(i)
         /\ Did(log[i], "postMessageFailed") =>
              (Settled(log[i], "AUTHORIZED") \/ C17_FailureStands(i))
C17_NotificationFailureIgnored == []C17_Unaffected
C17_Witness ==
  \E i, j \in Invocations :
    /\ Finished(i) /\ Settled(log[i], "AUTHORIZED")
    /\ Did(log[i], "postMessageFailed") /\ Did(log[i], "setItem")
    /\ C17_SuccessStands(i)
    /\ Finished(j) /\ Failed(log[j])
    /\ Did(log[j], "postMessageFailed") /\ Did(log[j], "display")
    /\ C17_FailureStands(j)


(***************************************************************************)
(* C18.  An invocation for state value s leaves every entry of another     *)
(* state value and every result of another session as they are, and        *)
(* changes storage only under the state key of s, the result key of the    *)
(* entry's prefix and session, the code-verifier and                       *)
(* last-authorization-URL keys of the entry's provider, and, when its      *)
(* token exchange succeeds, the tokens key of that provider.  Nothing but  *)
(* an invocation's steps changes storage.  C18_Frame is the statement      *)
(* without the tokens key.                                                 *)
(***************************************************************************)
C18_EntryKeys(data) ==
  IF data # NoData /\ data.providerOptions # NoOptions
    THEN {AuthResultKey(data.providerOptions.storageKeyPrefix, data.authSessionId),
          getKey(NewProvider(data.providerOptions.serverUrl,
                             data.providerOptions.storageKeyPrefix), "code_verifier"),
          getKey(NewProvider(data.providerOptions.serverUrl,
                             data.providerOptions.storageKeyPrefix), "last_auth_url")}
    ELSE {}
C18_Allowed(state, data) ==
  IF Truthy(state) THEN {StateKey(state)} \cup C18_EntryKeys(data) ELSE {}
C18_TokensKey(data) ==
  {getKey(NewProvider(data.providerOptions.serverUrl,
                      data.providerOptions.storageKeyPrefix), "tokens")}
C18_Changed == {k \in AllKeys : localStorage'[k] # localStorage[k]}
C18_Exchanges(i) == pc[i] = "awaiting" /\ pc'[i] = "awaiting" /\ log'[i] # log[i]
C18_Resumes(i) == pc[i] = "awaiting" /\ pc'[i] # "awaiting"
C18_AtLoad(i) ==
  Loads(i) =>
    C18_Changed \subseteq
      C18_Allowed(query'[i].state,
                  IF Truthy(query'[i].state)
                    THEN EntryData(localStorage[StateKey(query'[i].state)])
                    ELSE NoData)
C18_OthersKept(i) ==
  /\ \A s \in StateValues :
       s # query'[i].state => localStorage'[StateKey(s)] = localStorage[StateKey(s)]
  /\ \A sid \in SessionIds :
       sid # SessionOf(storedStateData'[i]) =>
         \A pfx \in Prefixes :
           localStorage'[AuthResultKey(pfx, sid)] = localStorage[AuthResultKey(pfx, sid)]
C18_NoOtherWriter ==
  (\A i \in Invocations : ~Loads(i) /\ ~C18_Exchanges(i) /\ ~C18_Resumes(i))
    => C18_Changed = {}
C18_Frame ==
  [][/\ \A i \in Invocations : C18_AtLoad(i)
     /\ \A i \in Invocations :
          (C18_Exchanges(i) \/ C18_Resumes(i)) =>
            C18_Changed \subseteq C18_Allowed(query[i].state, storedStateData[i])
     /\ C18_NoOtherWriter]_vars
C18_FrameWithTokens ==
  [][/\ \A i \in Invocations : C18_AtLoad(i)
     /\ \A i \in Invocations :
          C18_Exchanges(i) =>
            C18_Changed \subseteq
              C18_Allowed(query[i].state, storedStateData[i])
                \cup (IF Did(log'[i], "saveTokens")
                        THEN C18_TokensKey(storedStateData[i]) ELSE {})
     /\ \A i \in Invocations :
          C18_Resumes(i) =>
            C18_Changed \subseteq C18_Allowed(query[i].state, storedStateData[i])
     /\ \A i \in Invocations :
          (Loads(i) \/ C18_Exchanges(i) \/ C18_Resumes(i)) => C18_OthersKept(i)
     /\ C18_NoOtherWriter]_vars
C18_Witness ==
  \E i, j \in Invocations :
    /\ Finished(i) /\ query[i].state = "s1" /\ Did(log[i], "setItem")
    /\ Finished(j) /\ query[j].state = "s2" /\ Did(log[j], "setItem")
    /\ Settled(log[i], "AUTHORIZED") /\ Failed(log[j])
    /\ localStorage[AuthResultKey("mcp:auth", "sess1")] # NoItem
    /\ localStorage[AuthResultKey("mcp:auth", "sess2")] # NoItem
    /\ localStorage[StateKey("s1")] = NoItem
    /\ localStorage[StateKey("s2")] = NoItem
    /\ \E k \in TokenKeys : localStorage[k] = Tokens

====
